---- MODULE Spec2Model ----
(***************************************************************************)
(* A model of lib/index.js, the CORS middleware: the option/origin         *)
(* resolution of corsMiddleware, the header composition primitives, the    *)
(* preflight/actual dispatch of cors() and applyHeaders.                   *)
(*                                                                         *)
(* JavaScript values are tagged records, so that truthiness, typeof,       *)
(* toString and join are computed the way the engine computes them.        *)
(***************************************************************************)
EXTENDS Integers, Sequences, FiniteSets

(***************************************************************************)
(* Bounds of the model.                                                    *)
(***************************************************************************)
NumReqs == 2

Reqs == 1..NumReqs

(***************************************************************************)
(* JavaScript values.                                                      *)
(***************************************************************************)
Undefined == [t |-> "undefined"]

Null == [t |-> "null"]

Absent == [t |-> "absent"]

Fn == [t |-> "function"]

Bool(b) == [t |-> "bool", b |-> b]

Str(s) == [t |-> "str", s |-> s]

Num(n) == [t |-> "num", n |-> n]

Arr(e) == [t |-> "arr", e |-> e]

\* A RegExp is modelled by the set of strings its test() accepts.
Re(m) == [t |-> "regexp", m |-> m]

\* A header directive {key: ..., value: ...}.
Hdr(k, v) == [t |-> "hdr", key |-> k, value |-> v]

\* ToBoolean
Truthy(v) ==
  CASE v.t = "undefined" -> FALSE
    [] v.t = "null" -> FALSE
    [] v.t = "absent" -> FALSE
    [] v.t = "bool" -> v.b
    [] v.t = "str" -> v.s # ""
    [] v.t = "num" -> v.n # 0
    [] OTHER -> TRUE

Digit(d) ==
  CASE d = 0 -> "0" [] d = 1 -> "1" [] d = 2 -> "2" [] d = 3 -> "3"
    [] d = 4 -> "4" [] d = 5 -> "5" [] d = 6 -> "6" [] d = 7 -> "7"
    [] d = 8 -> "8" [] d = 9 -> "9"

RECURSIVE NatToString(_)
NatToString(n) == IF n < 10 THEN Digit(n) ELSE NatToString(n \div 10) \o Digit(n % 10)

RECURSIVE ToString(_)
RECURSIVE Join(_, _)
\* Array.prototype.join: null and undefined elements give the empty string.
Join(e, sep) ==
  IF Len(e) = 0 THEN ""
  ELSE LET h == IF Head(e).t \in {"undefined", "null"} THEN "" ELSE ToString(Head(e))
       IN IF Len(e) = 1 THEN h ELSE h \o sep \o Join(Tail(e), sep)

\* String(v) / v.toString()
ToString(v) ==
  CASE v.t = "str" -> v.s
    [] v.t = "num" -> IF v.n < 0 THEN "-" \o NatToString(-v.n) ELSE NatToString(v.n)
    [] v.t = "bool" -> IF v.b THEN "true" ELSE "false"
    [] v.t = "arr" -> Join(v.e, ",")
    [] v.t = "undefined" -> "undefined"
    [] v.t = "null" -> "null"
    [] OTHER -> "[object]"

\* v.length: defined on strings and arrays, undefined elsewhere.
Length(v) ==
  CASE v.t = "str" -> Num(Len(v.s))
    [] v.t = "arr" -> Num(Len(v.e))
    [] OTHER -> Undefined

\* String.prototype.toUpperCase on the method names the model sends.
toUpperCase(s) ==
  CASE s \in {"options", "Options", "oPtIoNs", "OPTIONS"} -> "OPTIONS"
    [] s \in {"get", "Get", "GET"} -> "GET"
    [] s \in {"post", "POST"} -> "POST"
    [] OTHER -> s

\* String.prototype.toLowerCase on the field names that reach Vary.
toLowerCase(s) ==
  CASE s \in {"origin", "Origin", "ORIGIN"} -> "origin"
    [] s \in {"access-control-request-headers", "Access-Control-Request-Headers"}
         -> "access-control-request-headers"
    [] s \in {"accept-encoding", "Accept-Encoding"} -> "accept-encoding"
    [] OTHER -> s

(***************************************************************************)
(* Options objects.  A key the object does not own holds Absent.           *)
(***************************************************************************)
OptionKeys ==
  {"origin", "methods", "preflightContinue", "optionsSuccessStatus", "credentials",
   "allowedHeaders", "headers", "exposedHeaders", "maxAge"}

EmptyObject == [k \in OptionKeys |-> Absent]

\* Property read: a missing key reads as undefined.
Get(obj, k) == IF obj[k] = Absent THEN Undefined ELSE obj[k]

defaults ==
  [EmptyObject EXCEPT !["origin"] = Str("*"),
                      !["methods"] = Str("GET,HEAD,PUT,PATCH,POST,DELETE"),
                      !["preflightContinue"] = Bool(FALSE),
                      !["optionsSuccessStatus"] = Num(204)]

\* object-assign(target, a, b): own keys of a, then of b, copied over target;
\* a null or undefined source is skipped.
assign(target, a, b) ==
  LET step(tgt, src) ==
        IF src \in {Undefined, Null} THEN tgt
        ELSE [k \in OptionKeys |-> IF src[k] # Absent THEN src[k] ELSE tgt[k]]
  IN step(step(target, a), b)

(***************************************************************************)
(* The response sink and the continuation, as one record per request:      *)
(* res    the response (headers, the Vary tokens, statusCode, ended)       *)
(* log    the calls made so far, in order                                  *)
(* next   the arguments of the calls of next(), in order                   *)
(***************************************************************************)
HeaderNames ==
  {"Access-Control-Allow-Origin", "Access-Control-Allow-Credentials",
   "Access-Control-Allow-Methods", "Access-Control-Allow-Headers",
   "Access-Control-Max-Age", "Access-Control-Expose-Headers", "Content-Length"}

Ev(op, arg) == [op |-> op, arg |-> arg]

\* res.setHeader(key, value): overwrites.
setHeader(rs, key, value) ==
  [rs EXCEPT !.res.headers[key] = value,
             !.log = Append(@, Ev("setHeader", key))]

\* vary(res, field): appends the field to the Vary header unless a token
\* equal to it, letter case ignored, is already there.
vary(rs, field) ==
  LET f == ToString(field)
      present == \E i \in 1..Len(rs.res.vary) : toLowerCase(rs.res.vary[i]) = toLowerCase(f)
  IN [rs EXCEPT !.res.vary = IF present THEN @ ELSE Append(@, f),
                !.log = Append(@, Ev("vary", f))]

\* res.statusCode = code
setStatusCode(rs, code) ==
  [rs EXCEPT !.res.statusCode = code, !.log = Append(@, Ev("statusCode", ""))]

\* res.end()
end(rs) ==
  [rs EXCEPT !.res.ended = @ + 1, !.log = Append(@, Ev("end", ""))]

\* next(arg); next() passes undefined.
callNext(rs, arg) ==
  [rs EXCEPT !.next = Append(@, arg), !.log = Append(@, Ev("next", ""))]

(***************************************************************************)
(* The request view: method, and the Origin and                            *)
(* Access-Control-Request-Headers request headers (undefined when the      *)
(* request does not carry them).                                           *)
(***************************************************************************)
Request(method, origin, acrh) == [method |-> method, origin |-> origin, acrh |-> acrh]

\* a || b
Or(a, b) == IF Truthy(a) THEN a ELSE b

(***************************************************************************)
(* Header composition primitives.                                          *)
(***************************************************************************)
RECURSIVE isOriginAllowedFirstOnly(_, _)
\* the loop returning on its first element, matching or not
isOriginAllowedFirstOnly(origin, allowedOrigin) ==
  CASE allowedOrigin.t = "arr" ->
         /\ Len(allowedOrigin.e) > 0
         /\ isOriginAllowedFirstOnly(origin, allowedOrigin.e[1])
    [] allowedOrigin.t = "str" -> origin = allowedOrigin
    [] allowedOrigin.t = "regexp" -> ToString(origin) \in allowedOrigin.m
    [] OTHER -> Truthy(allowedOrigin)

RECURSIVE isOriginAllowed(_, _)
isOriginAllowed(origin, allowedOrigin) ==
  CASE allowedOrigin.t = "arr" ->
         \E i \in 1..Len(allowedOrigin.e) : isOriginAllowed(origin, allowedOrigin.e[i])
    [] allowedOrigin.t = "str" -> origin = allowedOrigin
    [] allowedOrigin.t = "regexp" -> ToString(origin) \in allowedOrigin.m
    [] OTHER -> Truthy(allowedOrigin)

configureOrigin(options, req) ==
  LET requestOrigin == req.origin
      origin == Get(options, "origin")
  IN IF ~Truthy(origin) \/ origin = Str("*")
     THEN Arr(<<Arr(<<Hdr("Access-Control-Allow-Origin", Str("*"))>>)>>)
     ELSE IF origin.t = "str"
     THEN Arr(<<Arr(<<Hdr("Access-Control-Allow-Origin", origin)>>),
                Arr(<<Hdr("Vary", Str("Origin"))>>)>>)
     ELSE LET isAllowed == isOriginAllowed(requestOrigin, origin)
          IN Arr(<<Arr(<<Hdr("Access-Control-Allow-Origin",
                             IF isAllowed THEN requestOrigin ELSE Bool(FALSE))>>),
                   Arr(<<Hdr("Vary", Str("Origin"))>>)>>)

configureMethods(options) ==
  LET methods == Get(options, "methods")
  IN Hdr("Access-Control-Allow-Methods",
         IF methods.t = "arr" THEN Str(Join(methods.e, ",")) ELSE methods)

configureCredentials(options) ==
  IF Get(options, "credentials") = Bool(TRUE)
  THEN Hdr("Access-Control-Allow-Credentials", Str("true"))
  ELSE Null

\* the reflection branch without its Vary directive
configureAllowedHeadersNoVary(options, req) ==
  LET configured == Or(Get(options, "allowedHeaders"), Get(options, "headers"))
      allowedHeaders ==
        IF ~Truthy(configured) THEN req.acrh
        ELSE IF configured.t = "arr" THEN Str(Join(configured.e, ","))
        ELSE configured
  IN Arr(IF Truthy(allowedHeaders) /\ Truthy(Length(allowedHeaders))
         THEN <<Arr(<<Hdr("Access-Control-Allow-Headers", allowedHeaders)>>)>>
         ELSE <<>>)

configureAllowedHeaders(options, req) ==
  LET configured == Or(Get(options, "allowedHeaders"), Get(options, "headers"))
      allowedHeaders ==
        IF ~Truthy(configured) THEN req.acrh
        ELSE IF configured.t = "arr" THEN Str(Join(configured.e, ","))
        ELSE configured
      headers ==
        IF ~Truthy(configured)
        THEN <<Arr(<<Hdr("Vary", Str("Access-Control-Request-Headers"))>>)>>
        ELSE <<>>
  IN Arr(IF Truthy(allowedHeaders) /\ Truthy(Length(allowedHeaders))
         THEN Append(headers, Arr(<<Hdr("Access-Control-Allow-Headers", allowedHeaders)>>))
         ELSE headers)

configureExposedHeaders(options) ==
  LET configured == Get(options, "exposedHeaders")
      headers == IF configured.t = "arr" THEN Str(Join(configured.e, ",")) ELSE configured
  IN IF ~Truthy(configured) THEN Null
     ELSE IF Truthy(headers) /\ Truthy(Length(headers))
     THEN Hdr("Access-Control-Expose-Headers", headers)
     ELSE Null

\* the test written as options.maxAge && options.maxAge.toString()
configureMaxAgeTruthyOnly(options) ==
  LET m == Get(options, "maxAge")
      maxAge == IF Truthy(m) THEN Str(ToString(m)) ELSE m
  IN IF Truthy(maxAge) /\ Truthy(Length(maxAge))
     THEN Hdr("Access-Control-Max-Age", maxAge)
     ELSE Null

configureMaxAge(options) ==
  LET m == Get(options, "maxAge")
      maxAge == IF m.t = "num" \/ Truthy(m) THEN Str(ToString(m)) ELSE m
  IN IF Truthy(maxAge) /\ Truthy(Length(maxAge))
     THEN Hdr("Access-Control-Max-Age", maxAge)
     ELSE Null

RECURSIVE applyHeaders(_, _)
applyHeaders(headers, rs) ==
  IF Len(headers.e) = 0 THEN rs
  ELSE LET header == Head(headers.e)
           applied ==
             IF ~Truthy(header) THEN rs
             ELSE IF header.t = "arr" THEN applyHeaders(header, rs)
             ELSE IF header.key = "Vary" /\ Truthy(header.value) THEN vary(rs, header.value)
             ELSE IF Truthy(header.value) THEN setHeader(rs, header.key, header.value)
             ELSE rs
       IN applyHeaders(Arr(Tail(headers.e)), applied)

(***************************************************************************)
(* cors(): the preflight / actual dispatch.                                *)
(***************************************************************************)
\* the method compared as sent, without toUpperCase()
methodOfAsSent(req) == req.method

\* req.method && req.method.toUpperCase && req.method.toUpperCase()
methodOf(req) ==
  IF ~Truthy(req.method) THEN req.method
  ELSE IF req.method.t = "str" THEN Str(toUpperCase(req.method.s))
  ELSE Undefined

preflightHeaders(options, req) ==
  Arr(<<configureOrigin(options, req),
        configureCredentials(options),
        configureMethods(options),
        configureAllowedHeaders(options, req),
        configureMaxAge(options),
        configureExposedHeaders(options)>>)

\* the actual-request plan with the methods directive left in
actualHeadersWithMethods(options, req) ==
  Arr(<<configureOrigin(options, req),
        configureCredentials(options),
        configureMethods(options),
        configureExposedHeaders(options)>>)

actualHeaders(options, req) ==
  Arr(<<configureOrigin(options, req),
        configureCredentials(options),
        configureExposedHeaders(options)>>)

\* the preflight answered directly whatever preflightContinue says
preflightTerminalAlwaysEnds(options, rs) ==
  end(setHeader(setStatusCode(rs, Get(options, "optionsSuccessStatus")),
                "Content-Length", Str("0")))

\* the else forgotten: next() and then the direct answer as well
preflightTerminalFallsThrough(options, rs) ==
  LET rs1 == IF Truthy(Get(options, "preflightContinue")) THEN callNext(rs, Undefined) ELSE rs
  IN end(setHeader(setStatusCode(rs1, Get(options, "optionsSuccessStatus")),
                   "Content-Length", Str("0")))

preflightTerminal(options, rs) ==
  IF Truthy(Get(options, "preflightContinue"))
  THEN callNext(rs, Undefined)
  ELSE end(setHeader(setStatusCode(rs, Get(options, "optionsSuccessStatus")),
                     "Content-Length", Str("0")))

cors(options, req, rs) ==
  IF methodOf(req) = Str("OPTIONS")
  THEN preflightTerminal(options, applyHeaders(preflightHeaders(options, req), rs))
  ELSE callNext(applyHeaders(actualHeaders(options, req), rs), Undefined)

(***************************************************************************)
(* Objects live in a heap, so that an object two requests share is seen to *)
(* be shared: the module's defaults table, the options object the caller   *)
(* handed to middlewareWrapper, and the corsOptions object of each request.*)
(***************************************************************************)
copyId(r) == "corsOptions" \o NatToString(r)

ObjIds == {"defaults", "o"} \cup {copyId(r) : r \in Reqs}

Err(e) == [t |-> "error", e |-> e]

VARIABLES
  o,            \* what middlewareWrapper was called with: an options object
                \* (its contents at that time), a function, or undefined
  heap,         \* the contents of every options object
  pc,           \* per request: idle, waitOptions, waitOrigin, done
  req,          \* per request: the request view
  rs,           \* per request: the response, the call log, the calls of next
  corsOptions,  \* per request: the object corsOptions refers to, "" before
  res0,         \* per request: the Vary header of the response as it arrived
  delivered     \* per request: what its callbacks have delivered so far

vars == <<o, heap, pc, req, rs, corsOptions, res0, delivered>>

\* the response before the middleware runs; it may already carry a Vary header
newRs(vary0) ==
  [res |-> [headers |-> [h \in HeaderNames |-> Absent], vary |-> vary0,
            statusCode |-> Num(200), ended |-> 0],
   log |-> <<>>, next |-> <<>>]

NotDelivered == [err |-> Absent, options |-> Absent, err2 |-> Absent, origin |-> Absent]

\* the options handed over by the wrapper of static options: cb(null, o)
staticOptions(h) == IF o = Undefined THEN Undefined ELSE h["o"]

(***************************************************************************)
(* corsMiddleware, as functions of the world of one request:               *)
(* w = [heap, pc, rs, co] with co the object corsOptions refers to.        *)
(***************************************************************************)
\* the merge done into the shared defaults table: assign(defaults, options)
assignTargetDefaults(r) == "defaults"

\* assign({}, defaults, options): the target is a fresh object
assignTarget(r) == copyId(r)

\* the error of the options callback dropped: next()
onOptionsErrorSwallowed(w, err) ==
  [w EXCEPT !.rs = callNext(@, Undefined), !.pc = "done"]

\* if (err) next(err)
onOptionsError(w, err) ==
  [w EXCEPT !.rs = callNext(@, err), !.pc = "done"]

\* the test written as if (err2), a falsy origin going on to cors()
originRejectedErrorOnly(err2, origin) == Truthy(err2)

\* if (err2 || !origin)
originRejected(err2, origin) == Truthy(err2) \/ ~Truthy(origin)

\* the callback handed to originCallback
onOrigin(w, rq, err2, origin) ==
  IF originRejected(err2, origin)
  THEN [w EXCEPT !.rs = callNext(@, err2), !.pc = "done"]
  ELSE LET h == [w.heap EXCEPT ![w.co]["origin"] = origin]
       IN [w EXCEPT !.heap = h, !.rs = cors(h[w.co], rq, @), !.pc = "done"]

\* the callback handed to optionsCallback
onOptions(w, r, rq, err, options) ==
  IF Truthy(err) THEN onOptionsError(w, err)
  ELSE LET tgt == assignTarget(r)
           h == [w.heap EXCEPT ![tgt] = assign(@, w.heap["defaults"], options)]
           w1 == [w EXCEPT !.heap = h, !.co = tgt]
           origin == Get(h[tgt], "origin")
       IN IF Truthy(origin) /\ origin.t = "function"
          THEN [w1 EXCEPT !.rs.log = Append(@, Ev("originCallback", "")),
                          !.pc = "waitOrigin"]
          ELSE IF Truthy(origin)
          THEN onOrigin([w1 EXCEPT !.rs.log = Append(@, Ev("originCallback", ""))],
                        rq, Null, Get(h[tgt], "origin"))
          ELSE [w1 EXCEPT !.rs = callNext(@, Undefined), !.pc = "done"]

\* corsMiddleware(req, res, next) up to the return of optionsCallback
onRequest(w, r, rq) ==
  LET w1 == [w EXCEPT !.rs.log = Append(@, Ev("optionsCallback", ""))]
  IN IF o = Fn THEN [w1 EXCEPT !.pc = "waitOptions"]
     ELSE onOptions(w1, r, rq, Null, staticOptions(w.heap))

World(r) == [heap |-> heap, pc |-> pc[r], rs |-> rs[r], co |-> corsOptions[r]]

Commit(r, w) ==
  /\ heap' = w.heap
  /\ pc' = [pc EXCEPT ![r] = w.pc]
  /\ rs' = [rs EXCEPT ![r] = w.rs]
  /\ corsOptions' = [corsOptions EXCEPT ![r] = w.co]

(***************************************************************************)
(* Actions.                                                                *)
(***************************************************************************)
\* A request arrives: corsMiddleware(req, res, next) runs until it returns.
corsMiddleware(r, views) ==
  /\ pc[r] = "idle"
  /\ \E v \in views :
       /\ req' = [req EXCEPT ![r] = v.req]
       /\ res0' = [res0 EXCEPT ![r] = v.vary0]
       /\ Commit(r, onRequest([World(r) EXCEPT !.rs = newRs(v.vary0)], r, v.req))
       /\ delivered' = [delivered EXCEPT ![r] =
                          IF o = Fn THEN NotDelivered
                          ELSE [NotDelivered EXCEPT !.err = Null,
                                                    !.options = staticOptions(heap)]]
  /\ o' = o

\* The options function of the caller delivers (err, options).
optionsCallbackDelivers(r, results) ==
  /\ pc[r] = "waitOptions"
  /\ \E d \in results :
       /\ Commit(r, onOptions(World(r), r, req[r], d.err, d.options))
       /\ delivered' = [delivered EXCEPT ![r].err = d.err, ![r].options = d.options]
  /\ UNCHANGED <<o, req, res0>>

\* The origin function of the caller delivers (err2, origin).
originCallbackDelivers(r, results) ==
  /\ pc[r] = "waitOrigin"
  /\ \E d \in results :
       /\ Commit(r, onOrigin(World(r), req[r], d.err, d.origin))
       /\ delivered' = [delivered EXCEPT ![r].err2 = d.err, ![r].origin = d.origin]
  /\ UNCHANGED <<o, req, res0>>

(***************************************************************************)
(* The inputs: origin rules, options objects, request views, and what the  *)
(* caller's callbacks deliver.                                             *)
(***************************************************************************)
A == "http://a.com"

B == "http://b.com"

\* the strings a pattern is tested on; String(undefined) is "undefined"
Tested == {"", A, B, "undefined"}

\* /^http:\/\/a\.com$/
ReA == Re({A})

\* /.*/
ReAny == Re(Tested)

ListBA == Arr(<<Str(B), Str(A)>>)

NestedList == Arr(<<Str(B), Arr(<<ReA>>)>>)

OriginOptions ==
  { [EmptyObject EXCEPT !["origin"] = og, !["preflightContinue"] = pf,
                        !["credentials"] = cr, !["optionsSuccessStatus"] = st] :
      og \in {Absent, Undefined, Null, Bool(FALSE), Str(""), Bool(TRUE), Str("*"), Str(A),
              ReA, ReAny, ListBA, NestedList, Arr(<<>>), Fn},
      pf \in {Absent, Bool(TRUE)},
      cr \in {Absent, Bool(TRUE), Bool(FALSE)},
      st \in {Absent, Num(200)} }

AllowedHeadersOptions ==
  { [EmptyObject EXCEPT !["allowedHeaders"] = ah, !["headers"] = hd,
                        !["preflightContinue"] = pf, !["origin"] = og] :
      ah \in {Absent, Str(""), Str("X-A,X-B"), Arr(<<>>), Arr(<<Str("X-A"), Str("X-B")>>)},
      hd \in {Absent, Arr(<<Str("X-C")>>)},
      pf \in {Absent, Bool(TRUE)},
      og \in {Absent, ListBA} }

MaxAgeOptions ==
  { [EmptyObject EXCEPT !["maxAge"] = ma, !["exposedHeaders"] = ex, !["methods"] = me] :
      ma \in {Absent, Null, Bool(FALSE), Str(""), Num(0), Num(600), Str("600"),
              Arr(<<>>), Bool(TRUE)},
      ex \in {Absent, Str(""), Str("X-E"), Arr(<<Str("X-E"), Str("X-F")>>), Arr(<<>>)},
      me \in {Absent, Arr(<<Str("GET"), Str("POST")>>)} }

View(method, origin, acrh, vary0) == [req |-> Request(method, origin, acrh), vary0 |-> vary0]

Views ==
  { View(m, og, Undefined, <<>>) :
      m \in {Undefined, Str("GET"), Str("OPTIONS"), Str("oPtIoNs")},
      og \in {Undefined, Str(""), Str(A), Str(B)} }
  \cup
  { View(m, Str(A), ac, v0) :
      m \in {Str("OPTIONS"), Str("options")},
      ac \in {Undefined, Str(""), Str("X-Foo,X-Bar")},
      v0 \in {<<>>, <<"Accept-Encoding", "origin">>} }
  \cup
  { View(m, og, Undefined, <<"Accept-Encoding">>) :
      m \in {Str("GET"), Str("OPTIONS")}, og \in {Str(A), Str(B)} }

FewViews ==
  { View(Str("GET"), Str(A), Undefined, <<>>),
    View(Str("options"), Str(B), Str("X-Foo,X-Bar"), <<>>),
    View(Str("OPTIONS"), Str(A), Undefined, <<"Accept-Encoding">>) }

FewOptions ==
  { EmptyObject,
    [EmptyObject EXCEPT !["origin"] = Str(A), !["credentials"] = Bool(TRUE)],
    [EmptyObject EXCEPT !["origin"] = Fn, !["preflightContinue"] = Bool(TRUE)],
    [EmptyObject EXCEPT !["origin"] = Bool(FALSE)] }

OptionsResults ==
  { [err |-> Err("E1"), options |-> Undefined], [err |-> Null, options |-> Undefined] }
  \cup { [err |-> Null, options |-> op] : op \in FewOptions }

OriginResults ==
  { [err |-> Err("E2"), origin |-> Undefined],
    [err |-> Err("E3"), origin |-> Str("*")],
    [err |-> Null, origin |-> Bool(FALSE)],
    [err |-> Undefined, origin |-> Undefined],
    [err |-> Null, origin |-> Bool(TRUE)],
    [err |-> Null, origin |-> Str(B)],
    [err |-> Null, origin |-> ListBA] }

(***************************************************************************)
(* Specifications.                                                         *)
(***************************************************************************)
\* the state after middlewareWrapper(made) returned
InitWith(made) ==
  /\ o \in made
  /\ heap = [id \in ObjIds |->
               IF id = "defaults" THEN defaults
               ELSE IF id = "o" /\ o \notin {Fn, Undefined} THEN o
               ELSE EmptyObject]
  /\ pc = [r \in Reqs |-> "idle"]
  /\ req = [r \in Reqs |-> Request(Undefined, Undefined, Undefined)]
  /\ rs = [r \in Reqs |-> newRs(<<>>)]
  /\ corsOptions = [r \in Reqs |-> ""]
  /\ res0 = [r \in Reqs |-> <<>>]
  /\ delivered = [r \in Reqs |-> NotDelivered]

\* Spec: one middleware instance serving NumReqs requests whose callbacks
\* complete in any order.
Init == InitWith({Fn, Undefined} \cup FewOptions)

Next ==
  \E r \in Reqs :
    \/ corsMiddleware(r, FewViews)
    \/ optionsCallbackDelivers(r, OptionsResults)
    \/ originCallbackDelivers(r, OriginResults)

Spec == Init /\ [][Next]_vars

\* SpecOne: one request, over the wide range of options and request views.
InitOne ==
  InitWith({Fn, Undefined} \cup OriginOptions \cup AllowedHeadersOptions \cup MaxAgeOptions)

NextOne ==
  \/ corsMiddleware(1, Views)
  \/ optionsCallbackDelivers(1, OptionsResults)
  \/ originCallbackDelivers(1, OriginResults)

SpecOne == InitOne /\ [][NextOne]_vars

(***************************************************************************)
(* Vocabulary of the properties.                                           *)
(***************************************************************************)
Done(r) == pc[r] = "done"

\* the request's method uppercases to OPTIONS
IsOptions(r) ==
  /\ pc[r] # "idle"
  /\ req[r].method.t = "str"
  /\ toUpperCase(req[r].method.s) = "OPTIONS"

\* the options merged over the defaults exist for this request
HasPolicy(r) == corsOptions[r] # ""

Policy(r) == heap[corsOptions[r]]

Header(r, name) == rs[r].res.headers[name]

VaryContains(r, field) ==
  \E i \in 1..Len(rs[r].res.vary) : toLowerCase(rs[r].res.vary[i]) = toLowerCase(field)

Logged(r, ev) == \E i \in 1..Len(rs[r].log) : rs[r].log[i] = ev

Count(r, op) == Cardinality({i \in 1..Len(rs[r].log) : rs[r].log[i].op = op})

\* nothing was written to the response: no header, no Vary, no status, no end
Untouched(r) ==
  /\ \A i \in 1..Len(rs[r].log) :
       rs[r].log[i].op \notin {"setHeader", "vary", "statusCode", "end"}
  /\ \A h \in HeaderNames : Header(r, h) = Absent
  /\ rs[r].res.vary = res0[r]
  /\ rs[r].res.ended = 0

OptionsError(r) == Truthy(delivered[r].err)

OriginError(r) == Truthy(delivered[r].err2)

\* the origin field is falsy once the options are merged over the defaults
MergedOriginFalsy(r) == HasPolicy(r) /\ ~Truthy(Get(Policy(r), "origin"))

\* the origin function delivered no error and a falsy value
OriginFalsy(r) ==
  /\ delivered[r].err2 # Absent
  /\ ~Truthy(delivered[r].err2)
  /\ ~Truthy(delivered[r].origin)

\* the policy resolved, without error, to a truthy origin rule
Resolved(r) ==
  /\ Done(r)
  /\ HasPolicy(r)
  /\ ~OptionsError(r) /\ ~OriginError(r)
  /\ ~MergedOriginFalsy(r) /\ ~OriginFalsy(r)

RECURSIVE Leaves(_)
\* the strings and patterns of a (possibly nested) list
Leaves(rule) ==
  IF rule.t = "arr"
  THEN UNION {Leaves(rule.e[i]) : i \in 1..Len(rule.e)}
  ELSE {rule}

\* a pattern, or a list whose elements are strings and patterns
PatternOrList(rule) ==
  /\ rule.t \in {"regexp", "arr"}
  /\ \A l \in Leaves(rule) : l.t \in {"str", "regexp"}

\* the request carries an Origin header that some element of the rule matches
Matches(r, rule) ==
  /\ req[r].origin.t = "str"
  /\ \E l \in Leaves(rule) :
       \/ l.t = "str" /\ l.s = req[r].origin.s
       \/ l.t = "regexp" /\ req[r].origin.s \in l.m

\* the position of a call in the order origin, credentials, exposed headers,
\* continuation; 9 for a call the actual path must not make
Rank(ev) ==
  CASE ev.op \in {"optionsCallback", "originCallback"} -> 0
    [] ev = Ev("setHeader", "Access-Control-Allow-Origin") -> 1
    [] ev = Ev("vary", "Origin") -> 1
    [] ev = Ev("setHeader", "Access-Control-Allow-Credentials") -> 2
    [] ev = Ev("setHeader", "Access-Control-Expose-Headers") -> 3
    [] ev.op = "next" -> 4
    [] OTHER -> 9

RECURSIVE Flatten(_)
\* the directives of a plan, in order
Flatten(headers) ==
  IF Len(headers.e) = 0 THEN <<>>
  ELSE LET h == Head(headers.e)
           rest == Flatten(Arr(Tail(headers.e)))
       IN IF h.t = "arr" THEN Flatten(h) \o rest
          ELSE IF h.t = "hdr" THEN <<h>> \o rest
          ELSE rest

\* every call of the log that writes to the response comes before the only
\* call of next, which is the last call
WritesBeforeNext(r) ==
  /\ Len(rs[r].log) > 0
  /\ rs[r].log[Len(rs[r].log)].op = "next"
  /\ Count(r, "next") = 1

(***************************************************************************)
(* C1                                                                      *)
(***************************************************************************)
PreflightAnswered(r) ==
  /\ Logged(r, Ev("statusCode", ""))
  /\ rs[r].res.statusCode = Get(Policy(r), "optionsSuccessStatus")
  /\ Header(r, "Content-Length") = Str("0")
  /\ rs[r].res.ended = 1
  /\ Len(rs[r].next) = 0

\* C1 as stated: for every policy, a handled OPTIONS request (any letter case)
\* with preflightContinue false gets the configured status, Content-Length
\* "0", an ended response and no call of next.
C1_EveryPolicy ==
  \A r \in Reqs :
    (Done(r) /\ HasPolicy(r) /\ IsOptions(r) /\ ~Truthy(Get(Policy(r), "preflightContinue")))
      => PreflightAnswered(r)

\* C1 amended: the same, for the policies that resolve without error to a
\* truthy origin rule; and next is not called while such a request is handled.
C1_ResolvedPolicy ==
  \A r \in Reqs :
    (HasPolicy(r) /\ IsOptions(r) /\ ~Truthy(Get(Policy(r), "preflightContinue")))
      => /\ Resolved(r) => PreflightAnswered(r)
         /\ ~Done(r) => Len(rs[r].next) = 0

C1_Witness ==
  /\ Resolved(1)
  /\ req[1].method = Str("oPtIoNs")
  /\ Get(Policy(1), "optionsSuccessStatus") = Num(200)
  /\ ~Truthy(Get(Policy(1), "preflightContinue"))
  /\ PreflightAnswered(1)

(***************************************************************************)
(* C2                                                                      *)
(***************************************************************************)
\* every directive of the preflight plan that carries a value is on the response
PlanApplied(r) ==
  LET plan == Flatten(preflightHeaders(Policy(r), req[r]))
  IN \A i \in 1..Len(plan) :
       Truthy(plan[i].value) =>
         IF plan[i].key = "Vary" THEN VaryContains(r, plan[i].value.s)
         ELSE Header(r, plan[i].key) = plan[i].value

\* C2: a handled OPTIONS request with preflightContinue true has next called
\* exactly once, the response not ended, and the headers of the preflight plan
\* on the response before that call.
C2_PreflightContinue ==
  \A r \in Reqs :
    (Done(r) /\ HasPolicy(r) /\ IsOptions(r) /\ Truthy(Get(Policy(r), "preflightContinue")))
      => /\ Len(rs[r].next) = 1
         /\ rs[r].res.ended = 0
         /\ WritesBeforeNext(r)
         /\ Resolved(r) => /\ PlanApplied(r)
                           /\ Header(r, "Access-Control-Allow-Methods") # Absent

C2_Witness ==
  /\ Resolved(1)
  /\ IsOptions(1)
  /\ Truthy(Get(Policy(1), "preflightContinue"))
  /\ Header(1, "Access-Control-Allow-Headers") = Str("X-Foo,X-Bar")
  /\ VaryContains(1, "Access-Control-Request-Headers")
  /\ Len(rs[1].next) = 1

(***************************************************************************)
(* C3                                                                      *)
(***************************************************************************)
\* C3: when the options callback or the origin callback reports an error, next
\* is called exactly once with that error, nothing is written to the response,
\* and after an options error the origin callback is not invoked.
C3_ErrorsPassedOn ==
  \A r \in Reqs :
    /\ (Done(r) /\ OptionsError(r))
         => /\ rs[r].next = <<delivered[r].err>>
            /\ Untouched(r)
            /\ Count(r, "originCallback") = 0
    /\ (Done(r) /\ OriginError(r))
         => /\ rs[r].next = <<delivered[r].err2>>
            /\ Untouched(r)

C3_Witness ==
  \E r1, r2 \in Reqs :
    /\ Done(r1) /\ delivered[r1].err = Err("E1")
    /\ Done(r2) /\ delivered[r2].err2 = Err("E3") /\ delivered[r2].origin = Str("*")

(***************************************************************************)
(* C4                                                                      *)
(***************************************************************************)
\* the origin rule is a pattern or list that the request's Origin fails
Disallowed(r) ==
  /\ Resolved(r)
  /\ PatternOrList(Get(Policy(r), "origin"))
  /\ ~Matches(r, Get(Policy(r), "origin"))

\* C4: a falsy origin (after the merge, or delivered without error by the
\* origin callback) passes the request on, whatever its method: next once
\* with no error, nothing written; a disallowed origin still gets Vary and
\* the other CORS headers.
C4_FalsyOriginSkips ==
  \A r \in Reqs :
    /\ (Done(r) /\ ~OptionsError(r) /\ (MergedOriginFalsy(r) \/ OriginFalsy(r)))
         => /\ Len(rs[r].next) = 1
            /\ ~Truthy(rs[r].next[1])
            /\ Untouched(r)
    /\ Disallowed(r)
         => /\ Header(r, "Access-Control-Allow-Origin") = Absent
            /\ VaryContains(r, "Origin")
            /\ Logged(r, Ev("vary", "Origin"))
            /\ (Get(Policy(r), "credentials") = Bool(TRUE)
                  => Header(r, "Access-Control-Allow-Credentials") = Str("true"))
            /\ (IsOptions(r) => Header(r, "Access-Control-Allow-Methods") # Absent)

C4_Witness ==
  /\ Done(1) /\ IsOptions(1)
  /\ OriginFalsy(1)
  /\ Len(rs[1].next) = 1
  /\ Untouched(1)

Preflight(r) == Resolved(r) /\ IsOptions(r)

\* the allow-list the options carry: allowedHeaders, else the older headers
AllowList(r) == Or(Get(Policy(r), "allowedHeaders"), Get(Policy(r), "headers"))

\* the value the directive arrives at: the list joined, or the request's
\* Access-Control-Request-Headers
AllowedValue(r) ==
  IF ~Truthy(AllowList(r)) THEN req[r].acrh
  ELSE IF AllowList(r).t = "arr" THEN Str(Join(AllowList(r).e, ","))
  ELSE AllowList(r)

VaryAdded(r, field) == Logged(r, Ev("vary", field))

\* C6 as stated: on a preflight, a configured allow-list is emitted
\* comma-joined without Vary; with none the request's
\* Access-Control-Request-Headers is reflected and Vary names it; and when the
\* value is empty the directive emits nothing, neither header nor Vary.
C6_EmptyEmitsNothing ==
  \A r \in Reqs :
    Preflight(r)
      => /\ (Truthy(AllowList(r)) /\ Truthy(AllowedValue(r)))
              => /\ Header(r, "Access-Control-Allow-Headers") = AllowedValue(r)
                 /\ ~VaryAdded(r, "Access-Control-Request-Headers")
         /\ (~Truthy(AllowList(r)) /\ Truthy(AllowedValue(r)))
              => /\ Header(r, "Access-Control-Allow-Headers") = req[r].acrh
                 /\ VaryContains(r, "Access-Control-Request-Headers")
         /\ ~Truthy(AllowedValue(r))
              => /\ Header(r, "Access-Control-Allow-Headers") = Absent
                 /\ ~VaryAdded(r, "Access-Control-Request-Headers")

\* C6 amended: when the value is empty no Access-Control-Allow-Headers is
\* emitted; Vary: Access-Control-Request-Headers is added whenever no
\* allow-list is configured, and never when one is.
C6_EmptyEmitsNoAllowHeaders ==
  \A r \in Reqs :
    Preflight(r)
      => /\ Truthy(AllowList(r))
              => /\ ~VaryAdded(r, "Access-Control-Request-Headers")
                 /\ Truthy(AllowedValue(r))
                      => Header(r, "Access-Control-Allow-Headers") = AllowedValue(r)
         /\ ~Truthy(AllowList(r))
              => /\ VaryAdded(r, "Access-Control-Request-Headers")
                 /\ VaryContains(r, "Access-Control-Request-Headers")
                 /\ Truthy(AllowedValue(r))
                      => Header(r, "Access-Control-Allow-Headers") = req[r].acrh
         /\ ~Truthy(AllowedValue(r))
              => Header(r, "Access-Control-Allow-Headers") = Absent
         /\ (Get(Policy(r), "allowedHeaders") = Arr(<<Str("X-A"), Str("X-B")>>))
              => Header(r, "Access-Control-Allow-Headers") = Str("X-A,X-B")

C6_Witness ==
  /\ Preflight(1)
  /\ ~Truthy(AllowList(1))
  /\ req[1].acrh = Undefined
  /\ Header(1, "Access-Control-Allow-Headers") = Absent
  /\ VaryAdded(1, "Access-Control-Request-Headers")

(***************************************************************************)
(* C7                                                                      *)
(***************************************************************************)
\* C7: a request whose method does not uppercase to OPTIONS, under a policy
\* resolved to a truthy origin rule, gets the origin, credentials and
\* exposed-headers directives in that order and nothing else, no status, no
\* end, and next exactly once after the headers.
C7_ActualPath ==
  \A r \in Reqs :
    (Resolved(r) /\ ~IsOptions(r))
      => /\ \A i, j \in 1..Len(rs[r].log) :
              i < j => Rank(rs[r].log[i]) <= Rank(rs[r].log[j])
         /\ \A i \in 1..Len(rs[r].log) : Rank(rs[r].log[i]) # 9
         /\ \A h \in {"Access-Control-Allow-Methods", "Access-Control-Allow-Headers",
                      "Access-Control-Max-Age", "Content-Length"} : Header(r, h) = Absent
         /\ rs[r].res.statusCode = Num(200)
         /\ rs[r].res.ended = 0
         /\ rs[r].next = <<Undefined>>
         /\ WritesBeforeNext(r)
         /\ Header(r, "Access-Control-Allow-Credentials") =
              (IF Get(Policy(r), "credentials") = Bool(TRUE) THEN Str("true") ELSE Absent)
         /\ (Get(Policy(r), "exposedHeaders") = Arr(<<Str("X-E"), Str("X-F")>>))
              => Header(r, "Access-Control-Expose-Headers") = Str("X-E,X-F")

C7_Witness ==
  /\ Resolved(1)
  /\ req[1].method = Str("GET")
  /\ Get(Policy(1), "methods") = Arr(<<Str("GET"), Str("POST")>>)
  /\ Header(1, "Access-Control-Expose-Headers") = Str("X-E,X-F")
  /\ Header(1, "Access-Control-Allow-Methods") = Absent
  /\ rs[1].next = <<Undefined>>

(***************************************************************************)
(* C8                                                                      *)
(***************************************************************************)
\* C8: on a preflight Access-Control-Max-Age is emitted, as the string form of
\* maxAge, exactly when maxAge is a number or a truthy value whose string form
\* is not empty; 0 is emitted as "0"; absent, null, false and "" emit nothing.
C8_MaxAge ==
  \A r \in Reqs :
    Preflight(r)
      => LET maxAge == Get(Policy(r), "maxAge")
             emitted == maxAge.t = "num" \/ (Truthy(maxAge) /\ ToString(maxAge) # "")
         IN /\ emitted => Header(r, "Access-Control-Max-Age") = Str(ToString(maxAge))
            /\ ~emitted => Header(r, "Access-Control-Max-Age") = Absent
            /\ maxAge = Num(0) => Header(r, "Access-Control-Max-Age") = Str("0")
            /\ maxAge = Num(600) => Header(r, "Access-Control-Max-Age") = Str("600")
            /\ maxAge \in {Undefined, Null, Bool(FALSE), Str("")}
                 => Header(r, "Access-Control-Max-Age") = Absent

C8_Witness ==
  /\ Preflight(1)
  /\ Get(Policy(1), "maxAge") = Num(0)
  /\ Header(1, "Access-Control-Max-Age") = Str("0")

(***************************************************************************)
(* C9                                                                      *)
(***************************************************************************)
\* the heap right after middlewareWrapper returned
heap0 ==
  [id \in ObjIds |->
     IF id = "defaults" THEN defaults
     ELSE IF id = "o" /\ o \notin {Fn, Undefined} THEN o
     ELSE EmptyObject]

\* request r handled alone, its callbacks delivering what they delivered to it
Alone(r) ==
  LET w0 == [heap |-> heap0, pc |-> "idle", rs |-> newRs(res0[r]), co |-> ""]
      w1 == onRequest(w0, r, req[r])
      w2 == IF w1.pc = "waitOptions" /\ delivered[r].err # Absent
            THEN onOptions(w1, r, req[r], delivered[r].err, delivered[r].options)
            ELSE w1
      w3 == IF w2.pc = "waitOrigin" /\ delivered[r].err2 # Absent
            THEN onOrigin(w2, req[r], delivered[r].err2, delivered[r].origin)
            ELSE w2
  IN w3

\* C9: whatever the order in which the callbacks of the requests complete,
\* each request gets the response and terminal action it gets alone, and
\* neither the defaults table nor the caller's options object changes.
C9_RequestsIndependent ==
  /\ heap["defaults"] = defaults
  /\ heap["o"] = heap0["o"]
  /\ \A r \in Reqs :
       pc[r] # "idle"
         => /\ rs[r] = Alone(r).rs
            /\ pc[r] = Alone(r).pc
            /\ HasPolicy(r) => Policy(r) = Alone(r).heap[copyId(r)]

C9_Witness ==
  \E r1, r2 \in Reqs :
    /\ r1 # r2
    /\ pc[r1] = "waitOrigin"
    /\ Done(r2) /\ delivered[r2].origin = Str(B)
    /\ Header(r2, "Access-Control-Allow-Origin") = Str(B)
    /\ Get(Policy(r1), "origin") = Fn

(***************************************************************************)
(* C10                                                                     *)
(***************************************************************************)
\* C10: a handled request has exactly one terminal action, next once or end
\* once, and none before it is done; the options callback is invoked once,
\* the origin callback at most once, both before anything is written.
C10_OneTerminalAction ==
  \A r \in Reqs :
    /\ Done(r) => \/ Len(rs[r].next) = 1 /\ rs[r].res.ended = 0
                  \/ Len(rs[r].next) = 0 /\ rs[r].res.ended = 1
    /\ Done(r) => Count(r, "next") + Count(r, "end") = 1
    /\ ~Done(r) => Len(rs[r].next) = 0 /\ rs[r].res.ended = 0
    /\ pc[r] # "idle" => Count(r, "optionsCallback") = 1
    /\ Count(r, "originCallback") <= 1
    /\ \A i, j \in 1..Len(rs[r].log) :
         (rs[r].log[i].op \in {"optionsCallback", "originCallback"}
            /\ rs[r].log[j].op \in {"setHeader", "vary", "statusCode", "end", "next"})
           => i < j

C10_Witness ==
  \E r1, r2 \in Reqs :
    /\ Done(r1) /\ rs[r1].res.ended = 1 /\ Len(rs[r1].next) = 0
    /\ Count(r1, "originCallback") = 1
    /\ Done(r2) /\ rs[r2].res.ended = 0 /\ Len(rs[r2].next) = 1
    /\ Header(r2, "Access-Control-Allow-Origin") # Absent

====
